---- MODULE Spec2Model ----
(***************************************************************************)
(* A model of tile_tools: the tile-covering engine (cover/tiles.py), the   *)
(* projection (tilebelt/point.py) and the tile algebra                     *)
(* (tilebelt/traverse.py).                                                 *)
(*                                                                         *)
(* Numbers.  The code computes in binary floating point.  The model        *)
(* computes in exact fixed point: a fractional tile coordinate is an       *)
(* integer numerator over the denominator FDen, a longitude is an integer  *)
(* number of units of 360/FDen degrees, and a latitude is represented by   *)
(* its Mercator ordinate ln((1+sin)/(1-sin))/(4 pi) in units of 1/FDen, so *)
(* that the forward projection is exact.  The poles (where the code        *)
(* divides by zero) have no such ordinate and are outside the model.       *)
(***************************************************************************)
EXTENDS Integers, Sequences, FiniteSets, TLC

\* ------------------------------------------------------------------ bounds
\* Largest zoom level drawn as an input.
ZMax == 3
\* Smallest zoom level drawn as an input.
ZMin == 1
\* Sub-tile resolution: input coordinates are multiples of 1/Q tile at ZMax.
Q == 2

\* Denominator of every fractional tile coordinate.
FDen == Q * (2 ^ ZMax)
\* Longitude 180 degrees (and Mercator ordinate 1/2) in model units.
LonHalf == FDen \div 2

Abs(n) == IF n < 0 THEN -n ELSE n

\* math.floor of a fractional tile coordinate given by its numerator.
Floor(n) == n \div FDen

\* Python's x >> 1 on integers (floor halving).
Shr1(n) == n \div 2

\* A point of tile space at zoom ZMax, (u/Q, v/Q), as a (lon, lat) Point.
TilePoint(u, v) == <<u - LonHalf, LonHalf - v>>

\* --------------------------------------------------------------- projection
\* Mutant of point_to_tile_fraction: x is not wrapped.
point_to_tile_fraction_nowrap(point, z) ==
    <<(2 ^ z) * (point[1] + LonHalf), (2 ^ z) * (LonHalf - point[2]), z>>

\* point_to_tile_fraction: (x, y, z) with x and y numerators over FDen.
\* x is wrapped into [0, 2^z); the branch "if x < 0" never runs, because
\* Python's % by a positive number is never negative.
point_to_tile_fraction(point, z) ==
    LET lon == point[1]
        lat == point[2]
        p2z == 2 ^ z
        x == p2z * (lon + LonHalf)
        y == p2z * (LonHalf - lat)
        xw == x % (p2z * FDen)
    IN  <<IF xw < 0 THEN xw + p2z * FDen ELSE xw, y, z>>

point_to_tile(point, z) ==
    LET f == point_to_tile_fraction(point, z)
    IN  <<Floor(f[1]), Floor(f[2]), z>>

\* ------------------------------------------------------------- line tracer
\* The locals of line_cover between two segments: tile_hash, ring, prev
\* (<<prev_x, prev_y>>, or <<>> for None) and cur (the loop's <<x, y>>, or
\* <<>> while no segment has bound them).
LineInit == [tile_hash |-> {}, ring |-> <<>>, prev |-> <<>>, cur |-> <<>>]

\* tmax_x < 1, with tmax_x = tx / adx (infinite when adx = 0).
BelowOne(t, ad) == ad # 0 /\ t < ad

\* Mutant of TmaxLess: tmax_x <= tmax_y, a tie steps along x.
TmaxNotGreater(tx, adx, ty, ady) ==
    IF adx = 0 THEN FALSE
    ELSE IF ady = 0 THEN TRUE
    ELSE tx * ady <= ty * adx

\* tmax_x < tmax_y, with tmax_x = tx / adx and tmax_y = ty / ady.
TmaxLess(tx, adx, ty, ady) ==
    IF adx = 0 THEN FALSE
    ELSE IF ady = 0 THEN TRUE
    ELSE tx * ady < ty * adx

\* Mutant of WalkStep: the step forgets tile_hash.add((x, y, zoom)).
WalkStepNoAdd(w, seg) ==
    LET stepx == TmaxLess(w.tx, seg.adx, w.ty, seg.ady)
        x == IF stepx THEN w.x + seg.sx ELSE w.x
        y == IF stepx THEN w.y ELSE w.y + seg.sy
        st == w.st
    IN  [x |-> x, y |-> y,
         tx |-> IF stepx THEN w.tx + FDen ELSE w.tx,
         ty |-> IF stepx THEN w.ty ELSE w.ty + FDen,
         st |-> [tile_hash |-> st.tile_hash,
                 ring |-> IF y # st.prev[2] THEN Append(st.ring, <<x, y>>)
                          ELSE st.ring,
                 prev |-> <<x, y>>,
                 cur |-> <<x, y>>]]

\* One iteration of "while tmax_x < 1 or tmax_y < 1": w holds the loop's
\* x, y, the numerators tx, ty of tmax_x, tmax_y, and the locals st.
WalkStep(w, seg) ==
    LET stepx == TmaxLess(w.tx, seg.adx, w.ty, seg.ady)
        x == IF stepx THEN w.x + seg.sx ELSE w.x
        y == IF stepx THEN w.y ELSE w.y + seg.sy
        st == w.st
    IN  [x |-> x, y |-> y,
         tx |-> IF stepx THEN w.tx + FDen ELSE w.tx,
         ty |-> IF stepx THEN w.ty ELSE w.ty + FDen,
         st |-> [tile_hash |-> st.tile_hash \cup {<<x, y, seg.zoom>>},
                 ring |-> IF y # st.prev[2] THEN Append(st.ring, <<x, y>>)
                          ELSE st.ring,
                 prev |-> <<x, y>>,
                 cur |-> <<x, y>>]]

\* "while tmax_x < 1 or tmax_y < 1"
Walking(w, seg) == BelowOne(w.tx, seg.adx) \/ BelowOne(w.ty, seg.ady)

RECURSIVE Walk(_, _)
Walk(w, seg) ==
    IF Walking(w, seg)
    THEN Walk(WalkStep(w, seg), seg)
    ELSE w.st

\* Mutant of SegmentStart: a degenerate segment is not skipped.
SegmentStartNoSkip(st, p0, p1, zoom) ==
    LET f0 == point_to_tile_fraction(p0, zoom)
        f1 == point_to_tile_fraction(p1, zoom)
        x0 == f0[1]
        y0 == f0[2]
        dx == f1[1] - x0
        dy == f1[2] - y0
        x == Floor(x0)
        y == Floor(y0)
        seg == [sx |-> IF dx > 0 THEN 1 ELSE -1,
                sy |-> IF dy > 0 THEN 1 ELSE -1,
                adx |-> Abs(dx), ady |-> Abs(dy), zoom |-> zoom,
                x0 |-> x0, y0 |-> y0, dx |-> dx, dy |-> dy]
        tx == Abs(((IF dx > 0 THEN 1 ELSE 0) + x) * FDen - x0)
        ty == Abs(((IF dy > 0 THEN 1 ELSE 0) + y) * FDen - y0)
        st1 == IF st.prev # <<x, y>>
               THEN [tile_hash |-> st.tile_hash \cup {<<x, y, zoom>>},
                     ring |-> Append(st.ring, <<x, y>>),
                     prev |-> <<x, y>>, cur |-> <<x, y>>]
               ELSE [st EXCEPT !.cur = <<x, y>>]
    IN  [skip |-> FALSE, seg |-> seg,
         w |-> [x |-> x, y |-> y, tx |-> tx, ty |-> ty, st |-> st1]]

\* The body of "for i in range(len(line) - 1)" for the segment p0 -> p1, up
\* to the while loop: whether the segment is skipped, the constants seg of
\* the segment, and the walker w at the head of the while loop (x, y, the
\* numerators tx, ty of tmax_x, tmax_y over adx, ady, and the locals st
\* after the start tile has been recorded).
SegmentStart(st, p0, p1, zoom) ==
    LET f0 == point_to_tile_fraction(p0, zoom)
        f1 == point_to_tile_fraction(p1, zoom)
        x0 == f0[1]
        y0 == f0[2]
        dx == f1[1] - x0
        dy == f1[2] - y0
        x == Floor(x0)
        y == Floor(y0)
        seg == [sx |-> IF dx > 0 THEN 1 ELSE -1,
                sy |-> IF dy > 0 THEN 1 ELSE -1,
                adx |-> Abs(dx), ady |-> Abs(dy), zoom |-> zoom,
                x0 |-> x0, y0 |-> y0, dx |-> dx, dy |-> dy]
        tx == Abs(((IF dx > 0 THEN 1 ELSE 0) + x) * FDen - x0)
        ty == Abs(((IF dy > 0 THEN 1 ELSE 0) + y) * FDen - y0)
        st1 == IF st.prev # <<x, y>>
               THEN [tile_hash |-> st.tile_hash \cup {<<x, y, zoom>>},
                     ring |-> Append(st.ring, <<x, y>>),
                     prev |-> <<x, y>>, cur |-> <<x, y>>]
               ELSE [st EXCEPT !.cur = <<x, y>>]
    IN  [skip |-> dx = 0 /\ dy = 0, seg |-> seg,
         w |-> [x |-> x, y |-> y, tx |-> tx, ty |-> ty, st |-> st1]]

\* The locals after the segment that starts as s: unchanged when it is
\* skipped ("continue"), else what the while loop leaves.
SegmentEnd(st, s) == IF s.skip THEN st ELSE Walk(s.w, s.seg)

\* The body of "for i in range(len(line) - 1)" for the segment p0 -> p1.
LineSegment(st, p0, p1, zoom) == SegmentEnd(st, SegmentStart(st, p0, p1, zoom))

RECURSIVE LineLoop(_, _, _, _)
LineLoop(st, line, i, zoom) ==
    IF i > Len(line) - 1 THEN st
    ELSE LineLoop(LineSegment(st, line[i], line[i + 1], zoom), line, i + 1, zoom)

\* list.pop(): the sequence without its last element.
Pop(s) == SubSeq(s, 1, Len(s) - 1)

\* Mutant of CloseRing: the x of the traversal is compared, not the y.
CloseRingOnX(st) ==
    IF st.ring # <<>> /\ st.cur[1] = st.ring[1][1]
    THEN [st EXCEPT !.ring = Pop(@)]
    ELSE st

\* "if ring and y == ring[0][1]: ring.pop()"
CloseRing(st) ==
    IF st.ring # <<>> /\ st.cur[2] = st.ring[1][2]
    THEN [st EXCEPT !.ring = Pop(@)]
    ELSE st

\* line_cover: the locals at the return; the code returns (tile_hash, ring).
line_cover(line, zoom) == CloseRing(LineLoop(LineInit, line, 1, zoom))

\* ---------------------------------------------------------- polygon filler
\* Python's s[i] for a 0-based index i, negative indices counting from the
\* end: defined when InRange, an IndexError otherwise.
InRange(s, i) == -Len(s) <= i /\ i < Len(s)

PyAt(s, i) == IF i < 0 THEN s[Len(s) + i + 1] ELSE s[i + 1]

\* "not a local min, not a local max, and not a duplicate".
IsCrossing(ky, y, my) == (y > ky \/ y > my) /\ (y < ky \/ y < my) /\ y # my

\* "for m in range(len(ring))" from m on: the intersections appended to
\* acc, or the IndexError of ring[k], ring[j].
RECURSIVE ScanRing(_, _, _)
ScanRing(ring, m, acc) ==
    IF m >= Len(ring) THEN [err |-> "none", pts |-> acc]
    ELSE IF ~InRange(ring, m - 2) \/ ~InRange(ring, m - 1)
    THEN [err |-> "IndexError", pts |-> acc]
    ELSE LET ky == PyAt(ring, m - 2)[2]
             y == PyAt(ring, m - 1)[2]
             my == PyAt(ring, m)[2]
         IN  ScanRing(ring, m + 1,
                      IF IsCrossing(ky, y, my)
                      THEN Append(acc, PyAt(ring, m - 1))
                      ELSE acc)

\* The locals of polygon_cover while the rings are traced: tile_hash, the
\* intersections pts, and the error raised, if any.
PolyInit == [err |-> "none", tile_hash |-> {}, pts |-> <<>>]

\* The scan of one traced ring, after "tile_hash |= line_hash".
ScanInto(acc, lc) ==
    LET sc == ScanRing(lc.ring, 0, acc.pts)
    IN  [err |-> sc.err, tile_hash |-> acc.tile_hash \cup lc.tile_hash,
         pts |-> sc.pts]

\* The body of "for line in coords".
PolyRing(acc, line, zoom) == ScanInto(acc, line_cover(line, zoom))

\* "for line in coords" from the i-th ring on.
RECURSIVE PolyRings(_, _, _, _)
PolyRings(acc, coords, i, zoom) ==
    IF i > Len(coords) \/ acc.err # "none" THEN acc
    ELSE PolyRings(PolyRing(acc, coords[i], zoom), coords, i + 1, zoom)

\* The sort key (t[1], t[0]) of the intersections, compared.
KeyLeq(a, b) == a[2] < b[2] \/ (a[2] = b[2] /\ a[1] <= b[1])

RECURSIVE Insert(_, _)
Insert(s, e) ==
    IF s = <<>> THEN <<e>>
    ELSE IF KeyLeq(s[Len(s)], e) THEN Append(s, e)
    ELSE Append(Insert(Pop(s), e), s[Len(s)])

\* intersections.sort(key=...): a stable sort by (y, x).
RECURSIVE SortByYX(_)
SortByYX(s) == IF s = <<>> THEN <<>> ELSE Insert(SortByYX(Pop(s)), s[Len(s)])

\* Mutant of PairFill: the tiles of the pair are appended without the test
\* "(x, y, zoom) not in tile_hash".
PairFillUnfiltered(a, b, zoom, tile_hash) ==
    LET n == IF b[1] - a[1] - 1 > 0 THEN b[1] - a[1] - 1 ELSE 0
    IN  [k \in 1..n |-> <<a[1] + k, a[2], zoom>>]

\* The tiles one pair appends: x from a[0] + 1 while x < b[0], in row a[1],
\* those not in tile_hash.
PairFill(a, b, zoom, tile_hash) ==
    LET n == IF b[1] - a[1] - 1 > 0 THEN b[1] - a[1] - 1 ELSE 0
        IsNew(t) == t \notin tile_hash
    IN  SelectSeq([k \in 1..n |-> <<a[1] + k, a[2], zoom>>], IsNew)

\* "for i in range(0, len(intersections), 2)" from the 0-based i on.
RECURSIVE FillPairs(_, _, _, _, _)
FillPairs(ints, i, zoom, tile_hash, tile_array) ==
    IF i >= Len(ints) THEN [err |-> "none", tile_array |-> tile_array]
    ELSE IF ~InRange(ints, i + 1)
    THEN [err |-> "IndexError", tile_array |-> tile_array]
    ELSE FillPairs(ints, i + 2, zoom, tile_hash,
                   tile_array \o PairFill(PyAt(ints, i), PyAt(ints, i + 1),
                                          zoom, tile_hash))

\* What polygon_cover returns after the fill fp of the traced rings pr.
PolyResult(pr, fp) ==
    IF fp.err # "none"
    THEN [err |-> fp.err, tile_hash |-> {}, tile_array |-> <<>>]
    ELSE [err |-> "none", tile_hash |-> pr.tile_hash,
          tile_array |-> fp.tile_array]

\* The sort and the fill of polygon_cover, given the traced rings pr.
PolyFill(pr, zoom) ==
    IF pr.err # "none"
    THEN [err |-> pr.err, tile_hash |-> {}, tile_array |-> <<>>]
    ELSE PolyResult(pr, FillPairs(SortByYX(pr.pts), 0, zoom, pr.tile_hash, <<>>))

\* polygon_cover: (tile_hash, tile_array), or the error it raises.
polygon_cover(coords, zoom) == PolyFill(PolyRings(PolyInit, coords, 1, zoom), zoom)

\* ------------------------------------------------------------- dispatcher
\* Optional[int]: None, or an integer n as <<n>>.
None == <<>>

Some(n) == <<n>>

\* cover_point: the set holding the tile of the point.
cover_point(point, z) == {point_to_tile(point, z)}

\* Mutant of parse_zoom: the pair is returned without comparing zmin, zmax.
parse_zoom_unchecked(z) ==
    IF z.kind = "int" THEN [err |-> "none", range |-> <<z.z, z.z>>]
    ELSE IF z.kind = "tuple" THEN [err |-> "none", range |-> <<z.zmin, z.zmax>>]
    ELSE [err |-> "TypeError", range |-> <<>>]

\* _parse_zoom.  A zoom input is [kind |-> "int", z |-> n], a pair
\* [kind |-> "tuple", zmin |-> a, zmax |-> b], or of another kind.
parse_zoom(z) ==
    IF z.kind = "int" THEN [err |-> "none", range |-> <<z.z, z.z>>]
    ELSE IF z.kind = "tuple"
    THEN IF z.zmin > z.zmax
         THEN [err |-> "ValueError", range |-> <<>>]
         ELSE [err |-> "none", range |-> <<z.zmin, z.zmax>>]
    ELSE [err |-> "TypeError", range |-> <<>>]

\* The order of two tiles in list(tile_hash).  Python leaves the iteration
\* order of a set unspecified; the model lists a set by (z, y, x).
TileLeq(a, b) ==
    \/ a[3] < b[3]
    \/ a[3] = b[3] /\ a[2] < b[2]
    \/ a[3] = b[3] /\ a[2] = b[2] /\ a[1] <= b[1]

RECURSIVE ListOfSet(_)
ListOfSet(S) ==
    IF S = {} THEN <<>>
    ELSE LET t == CHOOSE a \in S : \A b \in S : TileLeq(a, b)
         IN  <<t>> \o ListOfSet(S \ {t})

\* _merge_tile_data: tile_array + list(tile_hash).
merge_tile_data(tile_hash, tile_array) == tile_array \o ListOfSet(tile_hash)

\* Mutant of MergeQuad: the four tiles merged stay in tile_hash.
MergeQuadKeepsChildren(lv, t, z, min_zoom) ==
    LET t2 == <<t[1] + 1, t[2], z>>
        t3 == <<t[1], t[2] + 1, z>>
        t4 == <<t[1] + 1, t[2] + 1, z>>
        parent == <<Shr1(t[1]), Shr1(t[2]), z - 1>>
        last == (z - 1 = min_zoom)
    IN  IF t[1] % 2 = 0 /\ t[2] % 2 = 0 /\ {t2, t3, t4} \subseteq lv.tile_hash
        THEN [err |-> "none",
              tile_hash |-> lv.tile_hash,
              final_tiles |-> IF last THEN Append(lv.final_tiles, parent)
                              ELSE lv.final_tiles,
              parent_tiles |-> IF last THEN lv.parent_tiles
                               ELSE Append(lv.parent_tiles, parent),
              parent_tile_hash |-> IF last THEN lv.parent_tile_hash
                                   ELSE lv.parent_tile_hash \cup {parent}]
        ELSE lv

\* Mutant of MergeQuad: the quad is merged without looking for t4.
MergeQuadNoT4(lv, t, z, min_zoom) ==
    LET t2 == <<t[1] + 1, t[2], z>>
        t3 == <<t[1], t[2] + 1, z>>
        t4 == <<t[1] + 1, t[2] + 1, z>>
        parent == <<Shr1(t[1]), Shr1(t[2]), z - 1>>
        last == (z - 1 = min_zoom)
    IN  IF t[1] % 2 = 0 /\ t[2] % 2 = 0 /\ {t2, t3} \subseteq lv.tile_hash
        THEN [err |-> "none",
              tile_hash |-> lv.tile_hash \ {t, t2, t3, t4},
              final_tiles |-> IF last THEN Append(lv.final_tiles, parent)
                              ELSE lv.final_tiles,
              parent_tiles |-> IF last THEN lv.parent_tiles
                               ELSE Append(lv.parent_tiles, parent),
              parent_tile_hash |-> IF last THEN lv.parent_tile_hash
                                   ELSE lv.parent_tile_hash \cup {parent}]
        ELSE lv

\* The body of the first "for t in tiles" of _extrapolate_zoom_range, at
\* level z, on the locals lv.  set.remove raises KeyError on a missing tile.
MergeQuad(lv, t, z, min_zoom) ==
    LET t2 == <<t[1] + 1, t[2], z>>
        t3 == <<t[1], t[2] + 1, z>>
        t4 == <<t[1] + 1, t[2] + 1, z>>
        parent == <<Shr1(t[1]), Shr1(t[2]), z - 1>>
        last == (z - 1 = min_zoom)
    IN  IF t[1] % 2 = 0 /\ t[2] % 2 = 0 /\ {t2, t3, t4} \subseteq lv.tile_hash
        THEN IF t \notin lv.tile_hash
             THEN [lv EXCEPT !.err = "KeyError"]
             ELSE [err |-> "none",
                   tile_hash |-> lv.tile_hash \ {t, t2, t3, t4},
                   final_tiles |-> IF last THEN Append(lv.final_tiles, parent)
                                   ELSE lv.final_tiles,
                   parent_tiles |-> IF last THEN lv.parent_tiles
                                    ELSE Append(lv.parent_tiles, parent),
                   parent_tile_hash |-> IF last THEN lv.parent_tile_hash
                                        ELSE lv.parent_tile_hash \cup {parent}]
        ELSE lv

\* Mutant of MergePass: no quad is merged.
MergePassSkipped(lv, tiles_, i, z, min_zoom) == lv

RECURSIVE MergePass(_, _, _, _, _)
MergePass(lv, tiles_, i, z, min_zoom) ==
    IF i > Len(tiles_) \/ lv.err # "none" THEN lv
    ELSE MergePass(MergeQuad(lv, tiles_[i], z, min_zoom), tiles_, i + 1, z, min_zoom)

\* Mutant of LevelEnd: the tiles left unmerged are not appended.
LevelEndDropsSurvivors(lp, lv) ==
    [err |-> lv.err,
     tiles |-> lv.parent_tiles,
     tile_hash |-> lv.parent_tile_hash,
     final_tiles |-> lv.final_tiles,
     z |-> lp.z - 1]

\* The end of one iteration of "while z > min_zoom": the second
\* "for t in tiles" and the three assignments, lv being the locals after
\* the first loop over the tiles lp.tiles of level lp.z.
LevelEnd(lp, lv) ==
    LET Survives(t) == t \in lv.tile_hash
    IN  [err |-> lv.err,
         tiles |-> lv.parent_tiles,
         tile_hash |-> lv.parent_tile_hash,
         final_tiles |-> lv.final_tiles \o SelectSeq(lp.tiles, Survives),
         z |-> lp.z - 1]

\* One iteration of "while z > min_zoom" on the loop state lp.
LevelStep(lp, min_zoom) ==
    LevelEnd(lp, MergePass([err |-> "none", tile_hash |-> lp.tile_hash,
                            final_tiles |-> lp.final_tiles,
                            parent_tiles |-> <<>>, parent_tile_hash |-> {}],
                           lp.tiles, 1, lp.z, min_zoom))

\* Mutant of ExtrapolateFrom: the loop runs one level below min_zoom.
RECURSIVE ExtrapolateFromBelow(_, _)
ExtrapolateFromBelow(lp, min_zoom) ==
    IF ~(lp.z > min_zoom - 1) \/ lp.err # "none" THEN lp
    ELSE ExtrapolateFromBelow(LevelStep(lp, min_zoom - 1), min_zoom)

\* "while z > min_zoom", from the loop state lp on.
RECURSIVE ExtrapolateFrom(_, _)
ExtrapolateFrom(lp, min_zoom) ==
    IF ~(lp.z > min_zoom) \/ lp.err # "none" THEN lp
    ELSE ExtrapolateFrom(LevelStep(lp, min_zoom), min_zoom)

Range(s) == {s[i] : i \in 1..Len(s)}

\* What _extrapolate_zoom_range returns from the final loop state.
ExtrapolateResult(lp) ==
    IF lp.err # "none" THEN [err |-> lp.err, tiles |-> <<>>]
    ELSE [err |-> "none", tiles |-> lp.final_tiles]

\* Lines 95-99: the locals of _extrapolate_zoom_range before the loop.
ExtrapolateStart(tiles_, zoom) ==
    [err |-> "none", tiles |-> tiles_, tile_hash |-> Range(tiles_),
     final_tiles |-> <<>>, z |-> zoom[2]]

\* _extrapolate_zoom_range(tiles, (min_zoom, max_zoom)).
extrapolate_zoom_range(tiles_, zoom) ==
    ExtrapolateResult(ExtrapolateFrom(ExtrapolateStart(tiles_, zoom), zoom[1]))

\* The covers of the members of a MultiPoint, unioned.
RECURSIVE MultiPointCover(_, _, _)
MultiPointCover(coords, i, z) ==
    IF i > Len(coords) THEN {}
    ELSE cover_point(coords[i], z) \cup MultiPointCover(coords, i + 1, z)

\* The covers of the members of a MultiLineString, unioned.
RECURSIVE MultiLineCover(_, _, _)
MultiLineCover(coords, i, z) ==
    IF i > Len(coords) THEN {}
    ELSE line_cover(coords[i], z).tile_hash \cup MultiLineCover(coords, i + 1, z)

\* The body of "for poly in geom.coordinates", ph being the polygon's cover.
AddPolygon(acc, ph) ==
    IF ph.err # "none" THEN ph
    ELSE [err |-> "none", tile_hash |-> acc.tile_hash \cup ph.tile_hash,
          tile_array |-> acc.tile_array \o ph.tile_array]

\* "for poly in geom.coordinates" from the i-th polygon on.
RECURSIVE MultiPolygonCover(_, _, _, _)
MultiPolygonCover(acc, coords, i, z) ==
    IF i > Len(coords) \/ acc.err # "none" THEN acc
    ELSE MultiPolygonCover(AddPolygon(acc, polygon_cover(coords[i], z)),
                           coords, i + 1, z)

\* Mutant of CoverGeom: the match has no case for MultiLineString.
CoverGeomNoMultiLine(geom, max_zoom_) ==
    LET c == geom.coordinates
        ok(h, a) == [err |-> "none", tile_hash |-> h, tile_array |-> a]
    IN  CASE geom.type = "Point" -> ok(cover_point(c, max_zoom_), <<>>)
          [] geom.type = "MultiPoint" -> ok(MultiPointCover(c, 1, max_zoom_), <<>>)
          [] geom.type = "LineString" -> ok(line_cover(c, max_zoom_).tile_hash, <<>>)
          [] geom.type = "Polygon" -> polygon_cover(c, max_zoom_)
          [] geom.type = "MultiPolygon" -> MultiPolygonCover(ok({}, <<>>), c, 1, max_zoom_)
          [] OTHER -> [err |-> "NotImplementedError", tile_hash |-> {},
                       tile_array |-> <<>>]

\* The "match type(geom)" of tiles: the tile_hash and tiles it leaves, or
\* the error raised.
CoverGeom(geom, max_zoom_) ==
    LET c == geom.coordinates
        ok(h, a) == [err |-> "none", tile_hash |-> h, tile_array |-> a]
    IN  CASE geom.type = "Point" -> ok(cover_point(c, max_zoom_), <<>>)
          [] geom.type = "MultiPoint" -> ok(MultiPointCover(c, 1, max_zoom_), <<>>)
          [] geom.type = "LineString" -> ok(line_cover(c, max_zoom_).tile_hash, <<>>)
          [] geom.type = "MultiLineString" -> ok(MultiLineCover(c, 1, max_zoom_), <<>>)
          [] geom.type = "Polygon" -> polygon_cover(c, max_zoom_)
          [] geom.type = "MultiPolygon" -> MultiPolygonCover(ok({}, <<>>), c, 1, max_zoom_)
          [] OTHER -> [err |-> "NotImplementedError", tile_hash |-> {},
                       tile_array |-> <<>>]

\* ------------------------------------------------------------ tile algebra
\* Mutant of get_parent: zmin is ignored.
get_parent_no_floor(tile, zmin) ==
    <<Shr1(tile[1]), Shr1(tile[2]), tile[3] - 1>>

\* get_parent(tile, zmin), zmin an Optional[int].
get_parent(tile, zmin) ==
    LET z1 == tile[3] - 1
    IN  IF zmin # None /\ z1 < zmin[1] THEN <<0, 0, 0>>
        ELSE <<Shr1(tile[1]), Shr1(tile[2]), z1>>

\* Default of get_parent's zmin.
MIN_ZOOM == 0

\* Default of get_children's zmax.
MAX_ZOOM == 28

\* The truth value Python gives an Optional[int]: None and 0 are false.
Truthy(o) == o # None /\ o[1] # 0

\* Mutant of get_children: the y of the children is not doubled.
get_children_flat(tile, zmax) ==
    LET z1 == tile[3] + 1
        x1 == 2 * tile[1]
        y1 == tile[2]
    IN  IF Truthy(zmax) /\ z1 > zmax[1] THEN <<>>
        ELSE <<<<x1, y1, z1>>, <<x1 + 1, y1, z1>>,
               <<x1 + 1, y1 + 1, z1>>, <<x1, y1 + 1, z1>>>>

\* get_children(tile, zmax), zmax an Optional[int]: the list returned.
get_children(tile, zmax) ==
    LET z1 == tile[3] + 1
        x1 == 2 * tile[1]
        y1 == 2 * tile[2]
    IN  IF Truthy(zmax) /\ z1 > zmax[1] THEN <<>>
        ELSE <<<<x1, y1, z1>>, <<x1 + 1, y1, z1>>,
               <<x1 + 1, y1 + 1, z1>>, <<x1, y1 + 1, z1>>>>

\* "[child for child in all_parent_children if tile != child]"
WithoutTile(children, tile) == SelectSeq(children, LAMBDA child : tile # child)

\* Mutant of get_siblings: the tile itself is not filtered out.
get_siblings_with_self(tile) ==
    get_children(get_parent(tile, None), None)

\* get_siblings(tile): the list returned.
get_siblings(tile) ==
    WithoutTile(get_children(get_parent(tile, None), None), tile)

\* A positional argument of has_siblings: a tile (hashable), held as the
\* one-element sequence v, or a list of tiles (unhashable), held as v.
TileArg(t) == [kind |-> "tile", v |-> <<t>>]

ListArg(l) == [kind |-> "list", v |-> l]

\* set(siblings) of a tuple of tiles.
ArgSet(siblings) == {siblings[i].v[1] : i \in 1..Len(siblings)}

\* Mutant of has_siblings: the subset test is turned round.
has_siblings_superset(tile, siblings) ==
    IF siblings = <<>> THEN [err |-> "none", value |-> TRUE]
    ELSE IF \E i \in 1..Len(siblings) : siblings[i].kind = "list"
    THEN [err |-> "TypeError", value |-> FALSE]
    ELSE [err |-> "none",
          value |-> Range(get_siblings(tile)) \subseteq ArgSet(siblings)]

\* has_siblings(tile, *siblings): siblings is the tuple of the positional
\* arguments.  set(siblings) raises TypeError when one of them is a list.
has_siblings(tile, siblings) ==
    IF siblings = <<>> THEN [err |-> "none", value |-> TRUE]
    ELSE IF \E i \in 1..Len(siblings) : siblings[i].kind = "list"
    THEN [err |-> "TypeError", value |-> FALSE]
    ELSE [err |-> "none",
          value |-> ArgSet(siblings) \subseteq Range(get_siblings(tile))]

\* ------------------------------------------------------ inverse projection
\* The 360.0 of tile_to_point.
Deg == 360

\* The denominator over which tile_to_point's coordinates are exact.
PointDen(z) == (2 ^ z) * Deg * Deg

\* tile_to_point(tile): the Point (lon, lat), both numerators over den in
\* the units of the forward projection.  "lon = x / (_2z * 360.0) - 180.0"
\* is x / (2^z * 360) - 180 degrees, that is x * FDen / (2^z * 360 * 360)
\* - FDen / 2 units; the latitude atan(sinh(pi - 2 pi y / 2^z)) has the
\* Mercator ordinate 1/2 - y / 2^z.
tile_to_point(tile) ==
    LET x == tile[1]
        y == tile[2]
        den == PointDen(tile[3])
    IN  [lon |-> x * FDen - LonHalf * den,
         lat |-> LonHalf * den - y * FDen * Deg * Deg,
         den |-> den]

\* point_to_tile_fraction for a point whose coordinates are numerators over
\* d: (x, y, z) with x and y numerators over FDen * d.
point_to_tile_fraction_over(point, z, d) ==
    LET lon == point[1]
        lat == point[2]
        p2z == 2 ^ z
        x == p2z * (lon + LonHalf * d)
        y == p2z * (LonHalf * d - lat)
        xw == x % (p2z * FDen * d)
    IN  <<IF xw < 0 THEN xw + p2z * FDen * d ELSE xw, y, z>>

\* ------------------------------------------------------------------ inputs
\* Bounds of the input families, in units of 1/Q tile at zoom ZMax.
LineMax == 4
PathMax == 2
TriMax == 2
RectMax == 7
HoleMax == 9
\* Largest zmin drawn for get_parent.
FloorMax == 2

Zooms == ZMin..ZMax

ZoomInputs ==
    {[kind |-> "int", z |-> z] : z \in Zooms}
    \cup {[kind |-> "tuple", zmin |-> a, zmax |-> b] : a \in Zooms, b \in Zooms}
    \cup {[kind |-> "str"]}

Geom(type, coordinates) == [type |-> type, coordinates |-> coordinates]

Grid(n) == {TilePoint(u, v) : u \in 0..n, v \in 0..n}

\* Points on and off the grid, with longitudes beyond +-180 degrees.
PointGeoms ==
    {Geom("Point", TilePoint(u, v)) :
        u \in (0 - Q)..(FDen + Q), v \in {1, LonHalf, FDen - 1}}

MultiPointGeoms ==
    {Geom("MultiPoint", <<p, q>>) : p \in Grid(PathMax), q \in Grid(PathMax)}

\* Two-point lines, some of them across the antimeridian.
LineEnds ==
    Grid(LineMax) \cup {TilePoint(u, v) : u \in {FDen - 1, FDen + 1}, v \in 0..LineMax}

LineGeoms ==
    {Geom("LineString", <<p, q>>) : p \in LineEnds, q \in LineEnds}
    \cup {Geom("LineString", <<p, q, r>>) :
            p \in Grid(PathMax), q \in Grid(PathMax), r \in Grid(PathMax)}
    \cup {Geom("LineString", <<>>)}

OddGrid(n) == {TilePoint(u, v) : u \in {1, n}, v \in {1, n}}

MultiLineGeoms ==
    {Geom("MultiLineString", <<<<p, q>>, <<r, s>>>>) :
        p \in OddGrid(LineMax), q \in OddGrid(LineMax),
        r \in OddGrid(LineMax), s \in OddGrid(LineMax)}

\* The closed ring of the rectangle [x0, x1] x [y0, y1], in either winding.
RectRing(x0, x1, y0, y1, rev) ==
    IF rev
    THEN <<TilePoint(x0, y0), TilePoint(x0, y1), TilePoint(x1, y1),
           TilePoint(x1, y0), TilePoint(x0, y0)>>
    ELSE <<TilePoint(x0, y0), TilePoint(x1, y0), TilePoint(x1, y1),
           TilePoint(x0, y1), TilePoint(x0, y0)>>

Spans(n) == {s \in (0..n) \X (0..n) : s[1] < s[2]}

RectGeoms ==
    {Geom("Polygon", <<RectRing(xs[1], xs[2], ys[1], ys[2], rev)>>) :
        xs \in Spans(RectMax), ys \in Spans(RectMax), rev \in BOOLEAN}

TriangleGeoms ==
    {Geom("Polygon", <<<<t[1], t[2], t[3], t[1]>>>>) :
        t \in {t \in Grid(TriMax) \X Grid(TriMax) \X Grid(TriMax) :
                 t[1] # t[2] /\ t[2] # t[3] /\ t[1] # t[3]}}

\* Quadrilaterals with vertices at tile centres, most of them
\* self-intersecting or degenerate.
Centres == {TilePoint(u, v) : u \in {1, 3, 5}, v \in {1, 5}}

QuadGeoms ==
    {Geom("Polygon", <<<<t[1], t[2], t[3], t[4], t[1]>>>>) :
        t \in {t \in Centres \X Centres \X Centres \X Centres :
                 \A i, j \in 1..4 : i # j => t[i] # t[j]}}

\* An exterior rectangle with a rectangular hole nested inside it.
HoleSpans == {s \in Spans(HoleMax) : s[1] >= 3 /\ (s[1] + s[2]) % 3 # 1}

DonutGeoms ==
    {Geom("Polygon", <<RectRing(1, HoleMax + 4, 1, HoleMax + 4, FALSE),
                       RectRing(xs[1], xs[2], ys[1], ys[2], TRUE)>>) :
        xs \in HoleSpans, ys \in HoleSpans}

SmallSpans == {s \in Spans(5) : s[1] % 2 = 1 /\ s[2] % 2 = 1}

MultiPolygonGeoms ==
    {Geom("MultiPolygon",
          <<<<RectRing(a[1], a[2], 1, 5, FALSE)>>,
            <<RectRing(b[1], b[2], b[1], b[2], FALSE)>>>>) :
        a \in SmallSpans, b \in SmallSpans}

UnsupportedGeoms ==
    {Geom(t, <<>>) : t \in {"Feature", "GeometryCollection"}}

PolygonGeoms == RectGeoms \cup TriangleGeoms \cup QuadGeoms \cup DonutGeoms

\* ------------------------------------------------------------------- state
\* pc: the position of the current call; call: the function and arguments;
\* min_zoom, max_zoom, tile_hash, tiles: the locals of tiles(); covered:
\* whether a covering function has run; ret: the value returned (None
\* before); err: the error raised; lc: the frame of a running line_cover
\* (see IdleFrame); ex: the loop state of a running _extrapolate_zoom_range
\* (see IdleLoop).
VARIABLES pc, call, min_zoom, max_zoom, tile_hash, tiles, covered, ret, err, lc, ex

vars == <<pc, call, min_zoom, max_zoom, tile_hash, tiles, covered, ret, err, lc, ex>>

\* The frame of line_cover: i, the index of the for loop (from 1); seg, the
\* constants of the current segment; w, the walker of the while loop, whose
\* st holds the locals tile_hash, ring, prev_x, prev_y and the loop's x, y;
\* and three records of history: last, the branch taken last; before, the
\* locals at the head of the for body entered last; from, the tile the last
\* step of the while loop left.
NoSeg ==
    [sx |-> 0, sy |-> 0, adx |-> 0, ady |-> 0, zoom |-> 0,
     x0 |-> 0, y0 |-> 0, dx |-> 0, dy |-> 0]

IdleFrame ==
    [i |-> 0, seg |-> NoSeg,
     w |-> [x |-> 0, y |-> 0, tx |-> 0, ty |-> 0, st |-> LineInit],
     last |-> "none", before |-> LineInit, from |-> <<>>]

\* The loop state of a running _extrapolate_zoom_range: its locals tiles,
\* tile_hash, final_tiles and z, and the error raised, if any.
IdleLoop ==
    [err |-> "none", tiles |-> <<>>, tile_hash |-> {}, final_tiles |-> <<>>,
     z |-> 0]

NoError == [type |-> "none", names |-> ""]

Init ==
    /\ pc = "idle"
    /\ call = [fn |-> "none"]
    /\ min_zoom = None
    /\ max_zoom = None
    /\ tile_hash = {}
    /\ tiles = <<>>
    /\ covered = FALSE
    /\ ret = None
    /\ err = NoError
    /\ lc = IdleFrame
    /\ ex = IdleLoop

\* tiles(geom, zoom) is called with a geometry of the family S: lines
\* 41-42 set the two locals.
TilesCallWith(S) ==
    /\ pc = "idle"
    /\ \E g \in S, z \in ZoomInputs :
          call' = [fn |-> "tiles", geom |-> g, zoom |-> z]
    /\ tiles' = <<>>
    /\ tile_hash' = {}
    /\ pc' = "parse"
    /\ UNCHANGED <<min_zoom, max_zoom, covered, ret, err, lc, ex>>

TilesCall ==
    \/ TilesCallWith(PointGeoms)
    \/ TilesCallWith(MultiPointGeoms)
    \/ TilesCallWith(LineGeoms)
    \/ TilesCallWith(MultiLineGeoms)
    \/ TilesCallWith(PolygonGeoms)
    \/ TilesCallWith(MultiPolygonGeoms)
    \/ TilesCallWith(UnsupportedGeoms)

\* min_zoom, max_zoom = _parse_zoom(zoom)
TilesParse ==
    /\ pc = "parse"
    /\ LET r == parse_zoom(call.zoom)
       IN  IF r.err # "none"
           THEN /\ pc' = "raised"
                /\ err' = [type |-> r.err, names |-> "zoom"]
                /\ UNCHANGED <<min_zoom, max_zoom>>
           ELSE /\ pc' = "match"
                /\ min_zoom' = Some(r.range[1])
                /\ max_zoom' = Some(r.range[2])
                /\ UNCHANGED err
    /\ UNCHANGED <<call, tile_hash, tiles, covered, ret, lc, ex>>

\* What the match statement leaves, r being the outcome of the covering.
CoverOutcome(r) ==
    IF r.err = "NotImplementedError"
    THEN /\ pc' = "raised"
         /\ err' = [type |-> r.err, names |-> call.geom.type]
         /\ UNCHANGED <<tile_hash, tiles, covered>>
    ELSE IF r.err # "none"
    THEN /\ pc' = "raised"
         /\ err' = [type |-> r.err, names |-> "index"]
         /\ covered' = TRUE
         /\ UNCHANGED <<tile_hash, tiles>>
    ELSE /\ pc' = "merge"
         /\ tile_hash' = r.tile_hash
         /\ tiles' = r.tile_array
         /\ covered' = TRUE
         /\ UNCHANGED err

\* match type(geom): the covering at max_zoom, or the error raised.
TilesCover ==
    /\ pc = "match"
    /\ CoverOutcome(CoverGeom(call.geom, max_zoom[1]))
    /\ UNCHANGED <<call, min_zoom, max_zoom, ret, lc, ex>>

\* tiles = _merge_tile_data(tile_hash, tiles)
TilesMerge ==
    /\ pc = "merge"
    /\ tiles' = merge_tile_data(tile_hash, tiles)
    /\ pc' = "extrapolate"
    /\ UNCHANGED <<call, min_zoom, max_zoom, tile_hash, covered, ret, err, lc, ex>>

\* What the extrapolation leaves, r being its outcome.
ExtrapolateOutcome(r) ==
    IF r.err # "none"
    THEN /\ pc' = "raised"
         /\ err' = [type |-> r.err, names |-> "tile"]
         /\ UNCHANGED tiles
    ELSE /\ pc' = "return"
         /\ tiles' = r.tiles
         /\ UNCHANGED err

\* if min_zoom != max_zoom: tiles = _extrapolate_zoom_range(...)
TilesExtrapolate ==
    /\ pc = "extrapolate"
    /\ IF min_zoom = max_zoom
       THEN pc' = "return" /\ UNCHANGED <<tiles, err>>
       ELSE ExtrapolateOutcome(
                extrapolate_zoom_range(tiles, <<min_zoom[1], max_zoom[1]>>))
    /\ UNCHANGED <<call, min_zoom, max_zoom, tile_hash, covered, ret, lc, ex>>

\* return tiles
TilesReturn ==
    /\ pc = "return"
    /\ ret' = Some(tiles)
    /\ pc' = "done"
    /\ UNCHANGED <<call, min_zoom, max_zoom, tile_hash, tiles, covered, err, lc, ex>>

Next ==
    \/ TilesCall
    \/ TilesParse
    \/ TilesCover
    \/ TilesMerge
    \/ TilesExtrapolate
    \/ TilesReturn

Spec == Init /\ [][Next]_vars

\* --------------------------------------------------------- tile algebra calls
Tiles == {<<x, y, z>> : x \in 0..(2 ^ ZMax - 1), y \in 0..(2 ^ ZMax - 1), z \in 0..ZMax}

ValidTiles == {t \in Tiles : t[1] < 2 ^ t[3] /\ t[2] < 2 ^ t[3]}

Floors == {None, Some(MIN_ZOOM)} \cup {Some(n) : n \in 0..FloorMax}

\* Tiles beside the default zmax, and the tile of the test suite.
HighTiles ==
    {<<x, y, z>> : x \in 0..1, y \in 0..1, z \in (MAX_ZOOM - 1)..(MAX_ZOOM + 1)}

TraverseTiles == ValidTiles \cup HighTiles \cup {<<5, 10, 10>>}

Ceilings == {None, Some(0), Some(MAX_ZOOM)} \cup {Some(n) : n \in 1..ZMax}

\* Candidate tiles of has_siblings, and the argument lists drawn from them.
CandMax == 2

CandTiles == {<<x, y, z>> : x \in 0..CandMax, y \in 0..CandMax, z \in ZMin..(ZMin + 1)}

CandSeqs ==
    {<<>>} \cup {<<a>> : a \in CandTiles}
    \cup {<<a, b>> : a \in CandTiles, b \in CandTiles}

QuadLists ==
    {get_children(<<0, 0, z>>, None) : z \in (ZMin - 1)..ZMin}
    \cup {get_siblings(t) : t \in CandTiles}

TileArgs == {[i \in 1..Len(l) |-> TileArg(l[i])] : l \in CandSeqs}

ListArgs == {<<ListArg(l)>> : l \in CandSeqs \cup QuadLists}

\* Longitudes over more than two turns, and a few latitudes.
WidePoints ==
    {<<lon, lat>> : lon \in (0 - 2 * FDen)..(2 * FDen),
                    lat \in {1 - LonHalf, 0, LonHalf - 1}}

\* A function of tilebelt is called: the call is recorded, and the next
\* step runs its body.
Called(c) ==
    /\ call' = c
    /\ pc' = "called"
    /\ UNCHANGED <<min_zoom, max_zoom, tile_hash, tiles, covered, ret, err, lc, ex>>

\* get_parent(tile, zmin) is called.
GetParentCall ==
    /\ pc = "idle"
    /\ \E t \in TraverseTiles, zmin \in Floors :
           Called([fn |-> "get_parent", tile |-> t, zmin |-> zmin])

\* get_children(tile, zmax) is called.
GetChildrenCall ==
    /\ pc = "idle"
    /\ \E t \in TraverseTiles, zmax \in Ceilings :
           Called([fn |-> "get_children", tile |-> t, zmax |-> zmax])

\* get_siblings(tile) is called.
GetSiblingsCall ==
    /\ pc = "idle"
    /\ \E t \in TraverseTiles : Called([fn |-> "get_siblings", tile |-> t])

\* has_siblings(tile, *siblings) is called with the positional arguments of
\* the family S.
HasSiblingsCallWith(S) ==
    /\ pc = "idle"
    /\ \E t \in CandTiles, a \in S :
           Called([fn |-> "has_siblings", tile |-> t, siblings |-> a])

HasSiblingsCall ==
    \/ HasSiblingsCallWith(TileArgs)
    \/ HasSiblingsCallWith(ListArgs)

\* tile_to_point(tile) is called.
TileToPointCall ==
    /\ pc = "idle"
    /\ \E t \in ValidTiles : Called([fn |-> "tile_to_point", tile |-> t])

\* point_to_tile_fraction(point, z) is called.
PointToTileFractionCall ==
    /\ pc = "idle"
    /\ \E p \in WidePoints, z \in 0..ZMax :
           Called([fn |-> "point_to_tile_fraction", point |-> p, z |-> z])

\* point_to_tile(point, z) is called.
PointToTileCall ==
    /\ pc = "idle"
    /\ \E p \in WidePoints, z \in 0..ZMax :
           Called([fn |-> "point_to_tile", point |-> p, z |-> z])

\* The function called returns v.
Returns(v) ==
    /\ pc' = "done"
    /\ ret' = Some(v)
    /\ UNCHANGED <<call, min_zoom, max_zoom, tile_hash, tiles, covered, err, lc, ex>>

GetParentReturn ==
    /\ pc = "called" /\ call.fn = "get_parent"
    /\ Returns(get_parent(call.tile, call.zmin))

GetChildrenReturn ==
    /\ pc = "called" /\ call.fn = "get_children"
    /\ Returns(get_children(call.tile, call.zmax))

GetSiblingsReturn ==
    /\ pc = "called" /\ call.fn = "get_siblings"
    /\ Returns(get_siblings(call.tile))

\* What has_siblings leaves, r being its outcome.
HasSiblingsOutcome(r) ==
    IF r.err # "none"
    THEN /\ pc' = "raised"
         /\ err' = [type |-> r.err, names |-> "list"]
         /\ UNCHANGED ret
    ELSE /\ pc' = "done"
         /\ ret' = Some(r.value)
         /\ UNCHANGED err

\* has_siblings returns, or raises the TypeError of set(siblings).
HasSiblingsReturn ==
    /\ pc = "called" /\ call.fn = "has_siblings"
    /\ HasSiblingsOutcome(has_siblings(call.tile, call.siblings))
    /\ UNCHANGED <<call, min_zoom, max_zoom, tile_hash, tiles, covered, lc, ex>>

TileToPointReturn ==
    /\ pc = "called" /\ call.fn = "tile_to_point"
    /\ Returns(tile_to_point(call.tile))

PointToTileFractionReturn ==
    /\ pc = "called" /\ call.fn = "point_to_tile_fraction"
    /\ Returns(point_to_tile_fraction(call.point, call.z))

PointToTileReturn ==
    /\ pc = "called" /\ call.fn = "point_to_tile"
    /\ Returns(point_to_tile(call.point, call.z))

NextTraverse ==
    \/ GetParentCall
    \/ GetParentReturn
    \/ GetChildrenCall
    \/ GetChildrenReturn
    \/ GetSiblingsCall
    \/ GetSiblingsReturn
    \/ HasSiblingsCall
    \/ HasSiblingsReturn
    \/ TileToPointCall
    \/ TileToPointReturn
    \/ PointToTileFractionCall
    \/ PointToTileFractionReturn
    \/ PointToTileCall
    \/ PointToTileReturn

SpecTraverse == Init /\ [][NextTraverse]_vars

\* ------------------------------------------------------- line_cover calls
\* The coordinate lists line_cover is called with: the lines of LineGeoms
\* (degenerate segments and antimeridian duplicates among them), lines of a
\* single coordinate, the closed rings of the rectangles and triangles, and
\* the corner triangles.
\* Rows of tiles of zoom ZMax spanned by the corner triangles.
CornerMax == 2

\* Closed triangles with their vertices on tile corners of zoom ZMax, one
\* tile wide and CornerMax tiles high.
CornerRings ==
    LET corners == {TilePoint(Q * a, Q * b) : a \in 0..1, b \in 0..CornerMax}
    IN  {<<t[1], t[2], t[3], t[1]>> :
            t \in {t \in corners \X corners \X corners :
                     t[1] # t[2] /\ t[2] # t[3] /\ t[1] # t[3]}}

LineInputs ==
    {g.coordinates : g \in LineGeoms}
    \cup {<<p>> : p \in Grid(PathMax)}
    \cup {g.coordinates[1] : g \in RectGeoms \cup TriangleGeoms}
    \cup CornerRings

\* line_cover(line, zoom) is called: lines 246-249 set the locals.
LineCoverCall ==
    /\ pc = "idle"
    /\ \E line \in LineInputs, zoom \in Zooms :
          call' = [fn |-> "line_cover", line |-> line, zoom |-> zoom]
    /\ lc' = [IdleFrame EXCEPT !.i = 1, !.last = "call"]
    /\ pc' = "for"
    /\ UNCHANGED <<min_zoom, max_zoom, tile_hash, tiles, covered, ret, err, ex>>

\* What the for body leaves at the while loop, s being the segment's start:
\* "continue" for a skipped segment, else the walker at the loop's head.
ForOutcome(s) ==
    IF s.skip
    THEN /\ lc' = [lc EXCEPT !.i = @ + 1, !.last = "skip", !.before = lc.w.st]
         /\ pc' = "for"
    ELSE /\ lc' = [lc EXCEPT !.seg = s.seg, !.w = s.w, !.last = "start",
                             !.before = lc.w.st]
         /\ pc' = "while"

\* "for i in range(len(line) - 1)": the loop ends, or the body runs up to
\* the while loop.
LineFor ==
    /\ pc = "for"
    /\ IF lc.i > Len(call.line) - 1
       THEN pc' = "close" /\ UNCHANGED lc
       ELSE ForOutcome(SegmentStart(lc.w.st, call.line[lc.i],
                                    call.line[lc.i + 1], call.zoom))
    /\ UNCHANGED <<call, min_zoom, max_zoom, tile_hash, tiles, covered, ret, err, ex>>

\* "while tmax_x < 1 or tmax_y < 1": one step, or the end of the for body.
LineWhile ==
    /\ pc = "while"
    /\ IF Walking(lc.w, lc.seg)
       THEN /\ lc' = [lc EXCEPT !.w = WalkStep(lc.w, lc.seg), !.last = "step",
                                !.from = <<lc.w.x, lc.w.y>>]
            /\ pc' = "while"
       ELSE /\ lc' = [lc EXCEPT !.i = @ + 1, !.last = "next"]
            /\ pc' = "for"
    /\ UNCHANGED <<call, min_zoom, max_zoom, tile_hash, tiles, covered, ret, err, ex>>

\* "return tile_hash, ring"
LineResult(st) == [tile_hash |-> st.tile_hash, ring |-> st.ring]

\* The ring closure of lines 295-296 and the return.
LineClose ==
    /\ pc = "close"
    /\ ret' = Some(LineResult(CloseRing(lc.w.st)))
    /\ pc' = "done"
    /\ UNCHANGED <<call, min_zoom, max_zoom, tile_hash, tiles, covered, err, lc, ex>>

NextLine ==
    \/ LineCoverCall
    \/ LineFor
    \/ LineWhile
    \/ LineClose

SpecLine == Init /\ [][NextLine]_vars

\* ------------------------------------------------- extrapolation, stepwise
\* The tiles of zoom z in the block of columns xs and rows ys.
TileBlock(xs, ys, z) ==
    {<<x, y, z>> : x \in xs[1]..xs[2], y \in ys[1]..ys[2]}

\* The side of the region the blocks are drawn from: the tiles of zoom ZMax
\* below one tile of zoom ZMin.
BlockSide == 2 ^ (ZMax - ZMin)

BlockSpans == {s \in (0..(BlockSide - 1)) \X (0..(BlockSide - 1)) : s[1] <= s[2]}

Reverse(s) == [i \in 1..Len(s) |-> s[Len(s) + 1 - i]]

\* Lists of tiles of zoom z without duplicates: the union of two blocks, in
\* the order (y, x) and in the reverse order.
BlockLists(z) ==
    LET sets == {TileBlock(a, b, z) \cup TileBlock(c, d, z) :
                    a \in BlockSpans, b \in BlockSpans,
                    c \in BlockSpans, d \in BlockSpans}
    IN  {ListOfSet(S) : S \in sets} \cup {Reverse(ListOfSet(S)) : S \in sets}

\* Lists holding every tile of a block twice.
DoubledLists(z) ==
    {ListOfSet(TileBlock(a, b, z)) \o ListOfSet(TileBlock(a, b, z)) :
        a \in BlockSpans, b \in BlockSpans}

\* _extrapolate_zoom_range(tiles, zoom) is called with a list of tiles of
\* zoom max_zoom, with duplicates or without: lines 95-99 set the locals.
ExtrapolateCallWith(doubled) ==
    /\ pc = "idle"
    /\ \E zmin \in Zooms, zmax \in Zooms :
          /\ zmin <= zmax
          /\ \E l \in (IF doubled THEN DoubledLists(zmax) ELSE BlockLists(zmax)) :
                /\ call' = [fn |-> "_extrapolate_zoom_range", tiles |-> l,
                            zoom |-> <<zmin, zmax>>]
                /\ ex' = ExtrapolateStart(l, <<zmin, zmax>>)
    /\ pc' = "level"
    /\ UNCHANGED <<min_zoom, max_zoom, tile_hash, tiles, covered, ret, err, lc>>

ExtrapolateCall ==
    \/ ExtrapolateCallWith(FALSE)
    \/ ExtrapolateCallWith(TRUE)

\* What one iteration of the while loop leaves, lp being the loop state
\* after it.
LevelOutcome(lp) ==
    /\ ex' = lp
    /\ IF lp.err # "none"
       THEN pc' = "raised" /\ err' = [type |-> lp.err, names |-> "tile"]
       ELSE pc' = "level" /\ UNCHANGED err

\* "while z > min_zoom": one iteration.
ExtrapolateLevel ==
    /\ pc = "level"
    /\ ex.z > call.zoom[1]
    /\ LevelOutcome(LevelStep(ex, call.zoom[1]))
    /\ UNCHANGED <<call, min_zoom, max_zoom, tile_hash, tiles, covered, ret, lc>>

\* "return final_tiles", the loop over.
ExtrapolateReturn ==
    /\ pc = "level"
    /\ ~(ex.z > call.zoom[1])
    /\ ret' = Some(ex.final_tiles)
    /\ pc' = "done"
    /\ UNCHANGED <<call, min_zoom, max_zoom, tile_hash, tiles, covered, err, lc, ex>>

NextExtrapolate ==
    \/ ExtrapolateCall
    \/ ExtrapolateLevel
    \/ ExtrapolateReturn

SpecExtrapolate == Init /\ [][NextExtrapolate]_vars

\* ------------------------------------------------------------------ claims
IsTilesCall == call.fn = "tiles"

GeomType == call.geom.type

\* The tiles at zoom z that a tile t of a zoom <= z expands to.
Descend(t, z) ==
    LET k == 2 ^ (z - t[3])
    IN  {<<x, y, z>> : x \in (t[1] * k)..(t[1] * k + k - 1),
                       y \in (t[2] * k)..(t[2] * k + k - 1)}

DescendAll(T, z) == UNION {Descend(t, z) : t \in T}

\* What the covering at max_zoom leaves for the call's geometry.
MaxCover == CoverGeom(call.geom, max_zoom[1])

MaxCoverTiles(r) == r.tile_hash \cup Range(r.tile_array)

\* C1: tiles(geom, (zmin, zmax)) covers exactly the area of the max-zoom
\* cover: every returned tile has a zoom in zmin..zmax, and the returned
\* tiles expanded to their descendants at zmax are exactly the tiles of
\* tiles(geom, zmax).
C1_ExtrapolationKeepsCover ==
    (pc = "done" /\ IsTilesCall) =>
        /\ \A t \in Range(ret[1]) : t[3] <= max_zoom[1]
        /\ DescendAll(Range(ret[1]), max_zoom[1]) = MaxCoverTiles(MaxCover)

\* C1 witness: a range of two levels whose result holds a tile merged twice
\* and a tile left at the maximum zoom.
C1_Witness ==
    /\ pc = "done" /\ IsTilesCall
    /\ max_zoom[1] = min_zoom[1] + 2
    /\ \E t \in Range(ret[1]) : t[3] = min_zoom[1]
    /\ \E t \in Range(ret[1]) : t[3] = max_zoom[1]

\* The segments of the call's LineString that line_cover does not skip, as
\* pairs of projected end points.
Segments(line, z) ==
    {<<point_to_tile_fraction(line[i], z), point_to_tile_fraction(line[i + 1], z)>> :
        i \in 1..(Len(line) - 1)}

LiveSegments(line, z) == {sg \in Segments(line, z) : sg[1] # sg[2]}

FloorTile(f) == <<Floor(f[1]), Floor(f[2]), f[3]>>

OnGridLine(n) == n % FDen = 0

\* The cell in which a traversal from a to b ends, along one axis: the cell
\* of b, or the cell before the grid line b lies on when b is approached
\* from below.
EndCell(a, b) == IF b > a /\ OnGridLine(b) THEN Floor(b) - 1 ELSE Floor(b)

LineCovered == pc = "merge" /\ IsTilesCall /\ GeomType = "LineString"

\* C2 as stated: the cover of a line holds, for every segment not skipped,
\* the tile of its start point and the tile of its end point.
C2_EndpointTilesCovered ==
    LineCovered =>
        \A sg \in LiveSegments(call.geom.coordinates, max_zoom[1]) :
            FloorTile(sg[1]) \in tile_hash /\ FloorTile(sg[2]) \in tile_hash

\* C2 amended: the cover of a line holds, for every segment not skipped, the
\* tile of its start point and the tile in which the segment ends: the tile
\* of the end point, except that along an axis on which the segment advances
\* in the positive direction and ends exactly on a grid line it is the tile
\* before that grid line.
C2_SegmentEndsCovered ==
    LineCovered =>
        \A sg \in LiveSegments(call.geom.coordinates, max_zoom[1]) :
            /\ FloorTile(sg[1]) \in tile_hash
            /\ <<EndCell(sg[1][1], sg[2][1]), EndCell(sg[1][2], sg[2][2]), sg[2][3]>>
                   \in tile_hash

\* C2 witness: a covered line with a segment that ends exactly on a grid
\* line, in a tile other than the one it starts in.
C2_Witness ==
    /\ LineCovered
    /\ \E sg \in LiveSegments(call.geom.coordinates, max_zoom[1]) :
          /\ OnGridLine(sg[2][1]) /\ sg[2][1] > sg[1][1]
          /\ FloorTile(sg[1])[1] < EndCell(sg[1][1], sg[2][1])
          /\ FloorTile(sg[2]) \notin tile_hash

\* A single closed ring of four corners, consecutive corners differing in
\* exactly one coordinate: an axis-aligned rectangle (the projection maps
\* longitude to x alone and latitude to y alone).
IsRectRing(r) ==
    /\ Len(r) = 5 /\ r[5] = r[1]
    /\ Cardinality({r[i][1] : i \in 1..4}) = 2
    /\ Cardinality({r[i][2] : i \in 1..4}) = 2
    /\ \A i \in 1..4 : (r[i][1] = r[i + 1][1]) # (r[i][2] = r[i + 1][2])

\* The block of tiles at zoom z spanned by the vertices of the ring r.
Block(r, z) ==
    LET cells == {FloorTile(point_to_tile_fraction(r[i], z)) : i \in 1..Len(r)}
        xs == {c[1] : c \in cells}
        ys == {c[2] : c \in cells}
    IN  {<<x, y, z>> : x \in {x \in 0..(2 ^ z) : \E a, b \in xs : a <= x /\ x <= b},
                       y \in {y \in 0..(2 ^ z) : \E a, b \in ys : a <= y /\ y <= b}}

Ended == pc \in {"done", "raised"}

SingleZoom == call.zoom.kind = "int"

RectCall ==
    /\ IsTilesCall /\ GeomType = "Polygon" /\ SingleZoom
    /\ Len(call.geom.coordinates) = 1
    /\ IsRectRing(call.geom.coordinates[1])

\* C3: for a polygon whose single closed ring is an axis-aligned rectangle,
\* tiles(polygon, z) returns exactly the block of tiles the rectangle spans.
C3_RectangleIsFullBlock ==
    (RectCall /\ Ended) =>
        /\ pc = "done"
        /\ Range(ret[1]) = Block(call.geom.coordinates[1], call.zoom.z)

\* An exterior rectangle ring with a rectangular hole ring.
DonutCall ==
    /\ IsTilesCall /\ GeomType = "Polygon" /\ SingleZoom
    /\ Len(call.geom.coordinates) = 2
    /\ IsRectRing(call.geom.coordinates[1])
    /\ IsRectRing(call.geom.coordinates[2])

\* The tiles strictly inside the hole h of a polygon with exterior e: in
\* the hole's block and on the border of neither ring.
InsideHole(e, h, z) ==
    (Block(h, z) \ line_cover(h, z).tile_hash) \ line_cover(e, z).tile_hash

\* C4: for an exterior ring with a hole nested inside it, the result holds
\* every tile between the two borders and no tile strictly inside the hole.
C4_HoleSubtracts ==
    (DonutCall /\ Ended) =>
        LET e == call.geom.coordinates[1]
            h == call.geom.coordinates[2]
            z == call.zoom.z
        IN  /\ pc = "done"
            /\ (Block(e, z) \ Block(h, z)) \subseteq Range(ret[1])
            /\ Range(ret[1]) \cap InsideHole(e, h, z) = {}

\* Every ring of the call's polygon, or polygons, is a closed coordinate
\* sequence.
ClosedRing(r) == Len(r) >= 4 /\ r[Len(r)] = r[1]

ClosedPolygon(rings) == \A i \in 1..Len(rings) : ClosedRing(rings[i])

PolygonCall ==
    /\ IsTilesCall
    /\ \/ GeomType = "Polygon" /\ ClosedPolygon(call.geom.coordinates)
       \/ /\ GeomType = "MultiPolygon"
          /\ \A i \in 1..Len(call.geom.coordinates) :
                ClosedPolygon(call.geom.coordinates[i])

\* C5: covering a polygon whose rings are closed never indexes past the end
\* of a ring or of the intersection list: with a valid zoom the call returns.
C5_PolygonNeverRaises ==
    (PolygonCall /\ min_zoom # None /\ Ended) => pc = "done"

BadRange ==
    IsTilesCall /\ call.zoom.kind = "tuple" /\ call.zoom.zmin > call.zoom.zmax

\* C6: with zmin > zmax, tiles raises ValueError before any covering: once
\* the zoom is parsed the call has failed with ValueError, whatever the
\* geometry, no covering function has run and no tile exists.
C6_BadRangeFailsFirst ==
    (BadRange /\ pc # "parse") =>
        /\ pc = "raised" /\ err.type = "ValueError"
        /\ ~covered /\ tile_hash = {} /\ tiles = <<>> /\ ret = None

\* C6 witness: the ValueError for a geometry of an unsupported type.
C6_Witness ==
    BadRange /\ pc = "raised" /\ err.type = "ValueError" /\ GeomType = "Feature"

Supported ==
    {"Point", "MultiPoint", "LineString", "MultiLineString", "Polygon",
     "MultiPolygon"}

\* The match statement of a call with a valid zoom has run.
Dispatched == IsTilesCall /\ min_zoom # None /\ pc # "match"

\* C7: with a valid zoom, a geometry of none of the six supported types
\* fails with NotImplementedError naming the type and leaves no result; a
\* geometry of a supported type is covered and never meets that error.
C7_UnsupportedGeometryRaises ==
    Dispatched =>
        IF GeomType \notin Supported
        THEN /\ pc = "raised"
             /\ err = [type |-> "NotImplementedError", names |-> GeomType]
             /\ ret = None /\ tiles = <<>> /\ tile_hash = {} /\ ~covered
        ELSE err.type # "NotImplementedError" /\ covered

\* C7 witness: the error raised for a GeometryCollection.
C7_Witness ==
    /\ Dispatched /\ pc = "raised"
    /\ err = [type |-> "NotImplementedError", names |-> "GeometryCollection"]

PointCall == IsTilesCall /\ GeomType = "Point" /\ min_zoom # None

\* C8: for a Point and a valid zoom or zoom range, tiles returns the list of
\* exactly one tile, point_to_tile(point, zmax), at zoom zmax.
C8_PointIsOneTile ==
    (PointCall /\ pc \in {"return", "done", "raised"}) =>
        /\ pc # "raised"
        /\ tiles = <<point_to_tile(call.geom.coordinates, max_zoom[1])>>
        /\ pc = "done" => ret = Some(tiles)

\* C8 witness: a point returned over a range of two levels whose tile has
\* even x and y, the corner of a quad.
C8_Witness ==
    /\ PointCall /\ pc = "done"
    /\ max_zoom[1] = min_zoom[1] + 2
    /\ ret[1][1][1] % 2 = 0 /\ ret[1][1][2] % 2 = 0

\* C9: the list tiles returns holds each tile at most once.
C9_NoDuplicateTiles ==
    (IsTilesCall /\ pc = "done") => Cardinality(Range(ret[1])) = Len(ret[1])

ParentCall == call.fn = "get_parent" /\ pc = "done"

Halved(t) == <<Shr1(t[1]), Shr1(t[2]), t[3] - 1>>

ChildrenCall == call.fn = "get_children" /\ pc = "done"

DefaultParentCall == ParentCall /\ call.zmin = Some(MIN_ZOOM) /\ call.tile[3] > 0

\* get_children(t, zmax) returned nothing, when zmax is enforced and z + 1
\* exceeds it, or four distinct tiles at z + 1 whose parent is t.
ChildrenShape ==
    ChildrenCall =>
        LET t == call.tile
            c == ret[1]
        IN  IF Truthy(call.zmax) /\ t[3] + 1 > call.zmax[1] THEN c = <<>>
            ELSE /\ Len(c) = 4 /\ Cardinality(Range(c)) = 4
                 /\ \A i \in 1..4 :
                       c[i][3] = t[3] + 1 /\ get_parent(c[i], Some(MIN_ZOOM)) = t

\* C11 as stated: every tile t with z > 0 is a member of
\* get_children(get_parent(t)) with the default zmin and zmax, and
\* get_children(t) is empty (only when zmax is enforced and z + 1 > zmax) or
\* four distinct tiles at z + 1 each of whose parent is t.
C11_ChildOfItsParent ==
    /\ DefaultParentCall =>
          call.tile \in Range(get_children(ret[1], Some(MAX_ZOOM)))
    /\ ChildrenShape

\* C11 amended: every tile t with 0 < z <= MAX_ZOOM is a member of
\* get_children(get_parent(t)) with the default zmin and zmax, while for
\* z > MAX_ZOOM that list is empty; get_children(t) is empty (only when zmax
\* is enforced and z + 1 > zmax) or four distinct tiles at z + 1 each of
\* whose parent is t.
C11_ChildOfItsParentUpToMaxZoom ==
    /\ DefaultParentCall =>
          IF call.tile[3] <= MAX_ZOOM
          THEN call.tile \in Range(get_children(ret[1], Some(MAX_ZOOM)))
          ELSE get_children(ret[1], Some(MAX_ZOOM)) = <<>>
    /\ ChildrenShape

\* C11 witness: the parent of a tile at zoom MAX_ZOOM with odd x and y, the
\* deepest tile that is a child of its parent.
C11_Witness ==
    /\ DefaultParentCall /\ call.tile = <<1, 1, MAX_ZOOM>>
    /\ get_children(ret[1], Some(MAX_ZOOM))[3] = call.tile

SiblingsCall == call.fn = "get_siblings" /\ pc = "done"

\* The four tiles of the quad of t, in the order of get_children.
Quad(t) ==
    LET bx == 2 * Shr1(t[1])
        by == 2 * Shr1(t[2])
    IN  <<<<bx, by, t[3]>>, <<bx + 1, by, t[3]>>,
          <<bx + 1, by + 1, t[3]>>, <<bx, by + 1, t[3]>>>>

SameParent(s, t) ==
    s[3] = t[3] /\ Shr1(s[1]) = Shr1(t[1]) /\ Shr1(s[2]) = Shr1(t[2])

\* C12: get_siblings(t) is the quad of t in the children order with t taken
\* out: three tiles at t's zoom that share t's parent; and every tile s
\* other than t that shares t's parent is in get_siblings(t) and has t in
\* get_siblings(s).
C12_SiblingsAreTheOtherThree ==
    SiblingsCall =>
        LET t == call.tile
            r == ret[1]
        IN  /\ r = SelectSeq(Quad(t), LAMBDA s : s # t)
            /\ Len(r) = 3 /\ t \notin Range(r)
            /\ \A s \in Range(r) : SameParent(s, t)
            /\ \A s \in Range(Quad(t)) \ {t} :
                  s \in Range(r) /\ t \in Range(get_siblings(s))

\* C12 witness: the siblings of the tile (5, 10, 10) of the test suite.
C12_Witness ==
    /\ SiblingsCall /\ call.tile = <<5, 10, 10>>
    /\ ret[1] = <<<<4, 10, 10>>, <<5, 11, 10>>, <<4, 11, 10>>>>

HasSiblingsCalled == call.fn = "has_siblings" /\ pc \in {"done", "raised"}

ListCall ==
    /\ HasSiblingsCalled
    /\ Len(call.siblings) = 1 /\ call.siblings[1].kind = "list"

\* C13: has_siblings(tile, tiles) with a list of tiles as its second
\* argument returns True when every sibling of tile is in the list and
\* False when one is missing.
C13_ListOfSiblings ==
    ListCall =>
        /\ pc = "done"
        /\ ret[1] = (Range(get_siblings(call.tile)) \subseteq Range(call.siblings[1].v))

TilesOnlyCall ==
    /\ HasSiblingsCalled
    /\ \A i \in 1..Len(call.siblings) : call.siblings[i].kind = "tile"

ToPointCall == call.fn = "tile_to_point" /\ pc = "done"

\* C15: for a tile (x, y, z) with 0 <= x < 2^z, tile_to_point returns the
\* longitude 360 x / 2^z - 180, and point_to_tile_fraction of the point
\* returned, at zoom z, has the x-coordinate x.
C15_TileToPointInverts ==
    ToPointCall =>
        LET t == call.tile
            p == ret[1]
        IN  /\ p.lon * (2 ^ t[3]) = (t[1] * FDen - LonHalf * (2 ^ t[3])) * p.den
            /\ point_to_tile_fraction_over(<<p.lon, p.lat>>, t[3], p.den)[1]
                  = t[1] * FDen * p.den

FractionCall == call.fn = "point_to_tile_fraction" /\ pc = "done"

TileOfPointCall == call.fn = "point_to_tile" /\ pc = "done"

\* The point of the call, k turns of 360 degrees further east.
Turned(k) == <<call.point[1] + k * FDen, call.point[2]>>

\* C16: for every longitude and zoom z the x of point_to_tile_fraction lies
\* in [0, 2^z) and the x of point_to_tile in 0..2^z - 1, and longitudes a
\* multiple of 360 degrees apart give the same x.
C16_LongitudeWraps ==
    /\ FractionCall =>
          /\ 0 <= ret[1][1] /\ ret[1][1] < (2 ^ call.z) * FDen
          /\ \A k \in {-1, 1} :
                point_to_tile_fraction(Turned(k), call.z)[1] = ret[1][1]
    /\ TileOfPointCall =>
          /\ ret[1][1] \in 0..(2 ^ call.z - 1)
          /\ ret[1][1] = (((call.point[1] + LonHalf) % FDen) * (2 ^ call.z)) \div FDen
          /\ \A k \in {-1, 1} : point_to_tile(Turned(k), call.z)[1] = ret[1][1]

\* C16 witness: a longitude just west of -180 degrees at zoom 2 lands in the
\* easternmost column, x = 3.
C16_Witness ==
    /\ TileOfPointCall /\ call.z = 2
    /\ call.point[1] = 0 - LonHalf - 1
    /\ ret[1][1] = 3

LineCall == call.fn = "line_cover"

Stepped == LineCall /\ lc.last = "step"

\* The parameter along the segment of the next grid line crossed from the
\* tile lc.from, as a fraction num / den: the next vertical line is
\* GridX.num / GridX.den away, the next horizontal one GridY.num / GridY.den.
GridX ==
    [num |-> Abs((lc.from[1] + (IF lc.seg.dx > 0 THEN 1 ELSE 0)) * FDen - lc.seg.x0),
     den |-> Abs(lc.seg.dx)]

GridY ==
    [num |-> Abs((lc.from[2] + (IF lc.seg.dy > 0 THEN 1 ELSE 0)) * FDen - lc.seg.y0),
     den |-> Abs(lc.seg.dy)]

\* a is strictly nearer than b; a line never crossed (den = 0) is infinitely
\* far.
Nearer(a, b) ==
    IF a.den = 0 THEN FALSE
    ELSE IF b.den = 0 THEN TRUE
    ELSE a.num * b.den < b.num * a.den

EquallyNear(a, b) == a.den # 0 /\ b.den # 0 /\ a.num * b.den = b.num * a.den

SteppedX == <<lc.w.x, lc.w.y>> = <<lc.from[1] + lc.seg.sx, lc.from[2]>>

SteppedY == <<lc.w.x, lc.w.y>> = <<lc.from[1], lc.from[2] + lc.seg.sy>>

\* C17 as stated: each step of the traversal crosses the nearer of the next
\* vertical and the next horizontal grid line, and when both are equally
\* near the step is taken along x.
C17_TiesStepAlongX ==
    Stepped =>
        IF Nearer(GridX, GridY) \/ EquallyNear(GridX, GridY)
        THEN SteppedX ELSE SteppedY

\* C17 amended: each step of the traversal crosses the nearer of the next
\* vertical and the next horizontal grid line, and when both are equally
\* near the step is taken along y.
C17_TiesStepAlongY ==
    Stepped => IF Nearer(GridX, GridY) THEN SteppedX ELSE SteppedY

\* C17 witness: a step taken along y out of a tile whose next vertical and
\* horizontal grid lines the segment crosses at the same point, a corner.
C17_Witness ==
    Stepped /\ EquallyNear(GridX, GridY) /\ SteppedY

LineDone == LineCall /\ pc = "done"

ClosedLine == Len(call.line) >= 4 /\ call.line[1] = call.line[Len(call.line)]

\* The intersections polygon_cover records for the ring returned.
RingScan == ScanRing(ret[1].ring, 0, <<>>)

\* The number of intersections of the sequence pts on the scanline y.
RowCount(pts, y) == Cardinality({k \in 1..Len(pts) : pts[k][2] = y})

\* C18: for the ring line_cover traces from a closed coordinate sequence,
\* the number of intersections recorded on each scanline y is even.
C18_EvenCrossingsPerRow ==
    (LineDone /\ ClosedLine /\ RingScan.err = "none") =>
        \A k \in 1..Len(RingScan.pts) :
            RowCount(RingScan.pts, RingScan.pts[k][2]) % 2 = 0

LastOf(s) == s[Len(s)]

\* C19: at the return of line_cover the last ring entry has been dropped
\* exactly when the ring's last entry had the y of its first entry, and
\* whenever the ring was not empty the final y of the traversal, which the
\* code compares, was the y of the last ring entry.
C19_RingClosure ==
    LineDone =>
        LET ring == lc.w.st.ring
        IN  /\ ring # <<>> => lc.w.st.cur[2] = LastOf(ring)[2]
            /\ ret[1].ring = IF ring # <<>> /\ LastOf(ring)[2] = ring[1][2]
                             THEN Pop(ring) ELSE ring

\* C19 witness: a ring of several entries whose last entry was dropped.
C19_Witness ==
    /\ LineDone /\ Len(lc.w.st.ring) >= 3
    /\ ret[1].ring = Pop(lc.w.st.ring)

\* The segment k of the call projects both its endpoints to the same
\* fractional tile coordinates.
Degenerate(k) ==
    point_to_tile_fraction(call.line[k], call.zoom)
        = point_to_tile_fraction(call.line[k + 1], call.zoom)

\* C20: a segment whose endpoints project to identical fractional tile
\* coordinates is skipped, leaving tile_hash, ring and the previous tile as
\* they were, and no other segment is skipped; no call raises; and a line
\* made only of such segments, or of fewer than two coordinates, returns
\* the empty tile set and the empty ring.
C20_DegenerateSegmentSkipped ==
    LineCall =>
        /\ pc # "raised" /\ err = NoError
        /\ lc.last = "skip" => Degenerate(lc.i - 1) /\ lc.w.st = lc.before
        /\ lc.last = "start" => ~Degenerate(lc.i)
        /\ (pc = "done" /\ \A k \in 1..(Len(call.line) - 1) : Degenerate(k)) =>
              ret[1] = [tile_hash |-> {}, ring |-> <<>>]

\* C20 witness: a degenerate segment skipped after a segment that has left
\* tiles and ring entries, its endpoints a turn of 360 degrees apart or
\* equal.
C20_Witness ==
    /\ LineCall /\ lc.last = "skip" /\ lc.i = 3
    /\ Len(lc.w.st.ring) >= 2 /\ lc.w.st = lc.before

\* polygon_cover has returned to tiles for the call's Polygon: tile_hash
\* and tiles hold the border set and the interior list it returned.
PolygonCovered == IsTilesCall /\ pc = "merge" /\ GeomType = "Polygon"

\* The border tiles of every ring of the call's polygon.
BorderOfRings ==
    UNION {line_cover(call.geom.coordinates[i], max_zoom[1]).tile_hash :
             i \in 1..Len(call.geom.coordinates)}

\* C21: in the result of polygon_cover the interior tile list and the
\* border tile set are disjoint, the interior list has no repeated tile,
\* and the border set is that of all the rings of the polygon, so no
\* interior tile is a border tile of any ring.
C21_InteriorDisjointFromBorder ==
    PolygonCovered =>
        /\ Range(tiles) \cap tile_hash = {}
        /\ Cardinality(Range(tiles)) = Len(tiles)
        /\ tile_hash = BorderOfRings

\* C21 witness: a polygon of two rings whose cover has several interior
\* tiles, and a row of it with a border tile between two interior tiles.
C21_Witness ==
    /\ PolygonCovered /\ Len(call.geom.coordinates) = 2 /\ Len(tiles) >= 2
    /\ \E a \in Range(tiles), b \in Range(tiles), t \in tile_hash :
          a[2] = t[2] /\ t[2] = b[2] /\ a[1] < t[1] /\ t[1] < b[1]

ExtrapolateDone == call.fn = "_extrapolate_zoom_range" /\ pc = "done"

\* The four tiles of the quad of the tile t.
QuadOf(t) ==
    {<<2 * Shr1(t[1]) + i, 2 * Shr1(t[2]) + j, t[3]>> : i \in 0..1, j \in 0..1}

\* Every tile of the maximum zoom below the tile p is in the list passed.
Full(p) == Descend(p, call.zoom[2]) \subseteq Range(call.tiles)

\* The tiles of the zooms above min_zoom over the region of the inputs.
AboveFloor ==
    {<<x, y, z>> : x \in 0..(BlockSide - 1), y \in 0..(BlockSide - 1),
                   z \in (call.zoom[1] + 1)..call.zoom[2]}

\* C22: after the extrapolation over (zmin, zmax) with zmin < zmax no
\* complete quad of a zoom above zmin is left in the result, and every
\* tile of a zoom above zmin that the input fills while it does not fill
\* its whole quad is in the result at its own zoom.
C22_CompleteQuadsMerged ==
    (ExtrapolateDone /\ call.zoom[1] < call.zoom[2]) =>
        /\ \A t \in Range(ret[1]) :
              t[3] > call.zoom[1] => ~(QuadOf(t) \subseteq Range(ret[1]))
        /\ \A p \in AboveFloor :
              (Full(p) /\ ~(\A q \in QuadOf(p) : Full(q))) => p \in Range(ret[1])

\* C22 witness: a range of two levels whose result holds the parent of a
\* complete quad, itself in an incomplete quad, and a tile left at the
\* maximum zoom.
C22_Witness ==
    /\ ExtrapolateDone /\ call.zoom[2] = call.zoom[1] + 2
    /\ \E t \in Range(ret[1]) : t[3] = call.zoom[1] + 1
    /\ \E t \in Range(ret[1]) : t[3] = call.zoom[2]

\* The list passed to _extrapolate_zoom_range holds no tile twice.
DuplicateFree == Cardinality(Range(call.tiles)) = Len(call.tiles)

\* The tiles s and t cover a common tile of the maximum zoom.
Overlap(s, t) == Descend(s, call.zoom[2]) \cap Descend(t, call.zoom[2]) # {}

\* C24: the tiles _extrapolate_zoom_range returns for a list of tiles of
\* the maximum zoom without duplicates do not overlap: no tile is returned
\* twice and no returned tile is an ancestor of another, so no tile of the
\* maximum zoom is covered by two tiles of the result.
C24_ResultTilesDisjoint ==
    (ExtrapolateDone /\ DuplicateFree) =>
        /\ Cardinality(Range(ret[1])) = Len(ret[1])
        /\ \A s \in Range(ret[1]), t \in Range(ret[1]) : s # t => ~Overlap(s, t)

\* C24 witness: a result of several tiles, the parent of a merged quad
\* beside tiles of a finer zoom.
C24_Witness ==
    /\ ExtrapolateDone /\ DuplicateFree /\ Len(ret[1]) >= 3
    /\ \E s \in Range(ret[1]), t \in Range(ret[1]) : s[3] < t[3]

TilesDone == IsTilesCall /\ pc = "done"

\* C23: every tile tiles(geom, (zmin, zmax)) returns has a zoom in
\* zmin..zmax, so that no tile of zoom zmin is merged further; and with a
\* single zoom z, or the pair (z, z), every tile returned is of zoom z.
C23_ZoomsWithinRange ==
    TilesDone =>
        \A t \in Range(ret[1]) :
            /\ min_zoom[1] <= t[3] /\ t[3] <= max_zoom[1]
            /\ call.zoom.kind = "int" => t[3] = call.zoom.z
            /\ call.zoom.kind = "tuple" =>
                  call.zoom.zmin <= t[3] /\ t[3] <= call.zoom.zmax

\* C23 witness: a range zmin < zmax whose result holds a whole quad of
\* tiles of zoom zmin, merged from the tiles of a finer zoom and left
\* unmerged.
C23_Witness ==
    /\ TilesDone /\ call.zoom.kind = "tuple" /\ call.zoom.zmin < call.zoom.zmax
    /\ \E t \in Range(ret[1]) :
          t[3] = call.zoom.zmin /\ QuadOf(t) \subseteq Range(ret[1])

\* A tile of the tile pyramid: z >= 0 and 0 <= x, y < 2^z.
IsValidTile(t) ==
    /\ t[3] >= 0
    /\ 0 <= t[1] /\ t[1] < 2 ^ t[3]
    /\ 0 <= t[2] /\ t[2] < 2 ^ t[3]

\* C25: for every valid tile, the root tile (0, 0, 0) included, every tile
\* get_siblings returns is a valid tile of the same zoom.
C25_SiblingsAreValidTiles ==
    (SiblingsCall /\ IsValidTile(call.tile)) =>
        \A k \in 1..Len(ret[1]) :
            IsValidTile(ret[1][k]) /\ ret[1][k][3] = call.tile[3]

====
